---- MODULE Spec2Model ----
(***************************************************************************)
(* Model of utils/qbee-devices-ansible.py: the conversion of a list of     *)
(* qbee.io device records into an ansible inventory, by tags (flat) or by  *)
(* groups (hierarchical).                                                  *)
(*                                                                         *)
(* Python values are modelled as follows.                                  *)
(*   - a str is a tuple of one-character strings, so that re.sub can be    *)
(*     computed character by character and so that a group label and the   *)
(*     keys 'hosts' and 'children' are values of one type;                 *)
(*   - a dict is a function whose DOMAIN is the set of its keys; the       *)
(*     inventory is a dict of dicts, nested exactly as in the program;     *)
(*   - a reference into the inventory (dataref) is the sequence of group   *)
(*     labels that leads to the referenced `children` dict;                *)
(*   - a KeyError ends the run: pc = "error" and err holds the key;        *)
(*   - items is the part of json_output['items'] consumed so far and       *)
(*     before is the inventory as it was when the last device was taken.   *)
(***************************************************************************)
EXTENDS Integers, Sequences, FiniteSets, TLC

VARIABLES mode, pc, items, inv, err, stdout, before

vars == <<mode, pc, items, inv, err, stdout, before>>

(* ----------------------------- bounds ---------------------------------- *)
MaxItems == 2      \* devices in json_output['items']
MaxPathLen == 3    \* elements of an ancestry list
MaxTags == 2       \* elements of a tags list

(* ------------------------- python helpers ------------------------------ *)
EmptyDict == <<>>

\* err when no KeyError was raised
NoError == <<>>

\* the keys of a group node and of a device record
HOSTS == <<"h", "o", "s", "t", "s">>
CHILDREN == <<"c", "h", "i", "l", "d", "r", "e", "n">>
NODE_ID == <<"n", "o", "d", "e", "_", "i", "d">>
TAGS == <<"t", "a", "g", "s">>
ANCESTORS == <<"a", "n", "c", "e", "s", "t", "o", "r", "s">>
ANCESTORS_TITLES == ANCESTORS \o <<"_", "t", "i", "t", "l", "e", "s">>
ARGS == <<"ansible_ssh_common_args">>

\* the dict {k: v}
Dict1(k, v) == [x \in {k} |-> v]

\* d[k] = v on a dict
DictSet(d, k, v) == [x \in (DOMAIN d) \cup {k} |-> IF x = k THEN v ELSE d[x]]

\* the characters matched by the class [ -]
SepChars == {" ", "-"}

\* index of the first character at or after i that is not in [ -]
RECURSIVE RunEnd(_, _)
RunEnd(s, i) ==
    IF i > Len(s) \/ s[i] \notin SepChars THEN i ELSE RunEnd(s, i + 1)

RECURSIVE ReSubFrom(_, _)
ReSubFrom(s, i) ==
    IF i > Len(s) THEN <<>>
    ELSE IF s[i] \in SepChars THEN <<"_">> \o ReSubFrom(s, RunEnd(s, i))
    ELSE <<s[i]>> \o ReSubFrom(s, i + 1)

\* re.sub(r'[ -]+', '_', s)
ReSub(s) == ReSubFrom(s, 1)

\* PROXY_COMMAND.format(node_id): the text before {}, the argument, the text after
PROXY_COMMAND(node_id) ==
    << "-o StrictHostKeyChecking=no -o ProxyCommand=\"qbee-cli connect -d " >>
    \o node_id
    \o << " -t stdio:localhost:22\"" >>

\* {'ansible_ssh_common_args': PROXY_COMMAND.format(node_id)}
HostVars(node_id) == Dict1(ARGS, PROXY_COMMAND(node_id))

(* --------------------------- the input --------------------------------- *)
\* node ids: "d1", "d2"
NodeIds == { <<"d", "1">>, <<"d", "2">> }

\* tag texts: "a-b", "a b", "hosts"
TagNames == { <<"a", "-", "b">>, <<"a", " ", "b">>, HOSTS }

\* group titles: "EU", "S -1"
TitleNames == { <<"E", "U">>, <<"S", " ", "-", "1">> }

\* the identifier of a titled group, as `ancestors` lists it: "e1", "s-1"
TitleId(t) == IF t = <<"E", "U">> THEN <<"e", "1">> ELSE <<"s", "-", "1">>

\* group identifiers of the records that carry no titles
LegacyIds == { <<"e", "1">> }

SeqsUpTo(S, n) == UNION { [1..k -> S] : k \in 0..n }

\* the lists of at most n different elements of S
ListsUpTo(S, n) ==
    { xs \in SeqsUpTo(S, n) : \A i, j \in DOMAIN xs : xs[i] = xs[j] => i = j }

JsonNull == [type |-> "null"]
JsonList(xs) == [type |-> "list", val |-> xs]

\* python truth value of a tags value: None and [] are false
Truthy(j) == j.type = "list" /\ j.val # <<>>

NodeIdPart == {EmptyDict} \cup { Dict1(NODE_ID, n) : n \in NodeIds }

\* `tags` is absent, null or a list of different tags
TagsPart ==
    {EmptyDict, Dict1(TAGS, JsonNull)}
    \cup { Dict1(TAGS, JsonList(ts)) : ts \in ListsUpTo(TagNames, MaxTags) }

\* the entry of the device itself, which ends its ancestry lists: its node id
\* ("d0" for a record without node_id) and its title "D-1", "D-2", "D-0"
OwnId(a) == IF NODE_ID \in DOMAIN a THEN a[NODE_ID] ELSE <<"d", "0">>
OwnTitle(a) == <<"D", "-", OwnId(a)[2]>>

\* the ancestry of the device with the node_id part a: no ancestry key, the
\* identifiers alone, or the titles with the identifiers of the same groups;
\* a list is empty or is a chain of groups followed by the device itself
AncestryPart(a) ==
    {EmptyDict, Dict1(ANCESTORS, <<>>),
     Dict1(ANCESTORS_TITLES, <<>>) @@ Dict1(ANCESTORS, <<>>)}
    \cup { Dict1(ANCESTORS, c \o <<OwnId(a)>>) :
             c \in SeqsUpTo(LegacyIds, MaxPathLen - 1) }
    \cup { Dict1(ANCESTORS_TITLES, c \o <<OwnTitle(a)>>)
             @@ Dict1(ANCESTORS, [k \in DOMAIN c |-> TitleId(c[k])] \o <<OwnId(a)>>) :
             c \in SeqsUpTo(TitleNames, MaxPathLen - 1) }

\* device records of a tags run and of a groups run
TagDevices == { a @@ b : a \in NodeIdPart, b \in TagsPart }
GroupDevices == UNION { { a @@ b : b \in AncestryPart(a) } : a \in NodeIdPart }

(* ----------------------- _add_device_to_group -------------------------- *)
\* _add_device_to_group creating a missing group as {'children': {}}
AddDeviceToGroup_WithChildren(device, label, dataref) ==
    LET d1 == IF label \notin DOMAIN dataref
              THEN DictSet(dataref, label, Dict1(CHILDREN, EmptyDict)) ELSE dataref
        d2 == IF HOSTS \notin DOMAIN d1[label]
              THEN DictSet(d1, label, DictSet(d1[label], HOSTS, EmptyDict))
              ELSE d1
    IN  IF NODE_ID \notin DOMAIN device
        THEN [ref |-> d2, err |-> NODE_ID]
        ELSE [ref |-> DictSet(d2, label,
                        DictSet(d2[label], HOSTS,
                            DictSet(d2[label][HOSTS], device[NODE_ID],
                                    HostVars(device[NODE_ID])))),
              err |-> NoError]

\* _add_device_to_group with `dataref[label]['hosts'] = {}` done each time
AddDeviceToGroup_ResetsHosts(device, label, dataref) ==
    LET d1 == IF label \notin DOMAIN dataref
              THEN DictSet(dataref, label, EmptyDict) ELSE dataref
        d2 == DictSet(d1, label, DictSet(d1[label], HOSTS, EmptyDict))
    IN  IF NODE_ID \notin DOMAIN device
        THEN [ref |-> d2, err |-> NODE_ID]
        ELSE [ref |-> DictSet(d2, label,
                        DictSet(d2[label], HOSTS,
                            DictSet(d2[label][HOSTS], device[NODE_ID],
                                    HostVars(device[NODE_ID])))),
              err |-> NoError]

\* _add_device_to_group with the hosts kept on dataref instead of on
\* dataref[label]
AddDeviceToGroup_HostsOnDataref(device, label, dataref) ==
    LET d1 == IF label \notin DOMAIN dataref
              THEN DictSet(dataref, label, EmptyDict) ELSE dataref
        d2 == IF HOSTS \notin DOMAIN d1
              THEN DictSet(d1, HOSTS, EmptyDict)
              ELSE d1
    IN  IF NODE_ID \notin DOMAIN device
        THEN [ref |-> d2, err |-> NODE_ID]
        ELSE [ref |-> DictSet(d2, HOSTS,
                        DictSet(d2[HOSTS], device[NODE_ID],
                                HostVars(device[NODE_ID]))),
              err |-> NoError]

\* result: the mutated dict and the key of the KeyError raised (NoError if none)
AddDeviceToGroup(device, label, dataref) ==
    LET d1 == IF label \notin DOMAIN dataref
              THEN DictSet(dataref, label, EmptyDict) ELSE dataref
        d2 == IF HOSTS \notin DOMAIN d1[label]
              THEN DictSet(d1, label, DictSet(d1[label], HOSTS, EmptyDict))
              ELSE d1
    IN  IF NODE_ID \notin DOMAIN device
        THEN [ref |-> d2, err |-> NODE_ID]
        ELSE [ref |-> DictSet(d2, label,
                        DictSet(d2[label], HOSTS,
                            DictSet(d2[label][HOSTS], device[NODE_ID],
                                    HostVars(device[NODE_ID])))),
              err |-> NoError]

(* ------------------------ references into inv -------------------------- *)
\* the dict reached from root through root[p1]['children'][p2]['children']...
RECURSIVE Deref(_, _)
Deref(root, path) ==
    IF path = <<>> THEN root
    ELSE Deref(root[Head(path)][CHILDREN], Tail(path))

\* root with the dict at path replaced by d
RECURSIVE Assign(_, _, _)
Assign(root, path, d) ==
    IF path = <<>> THEN d
    ELSE DictSet(root, Head(path),
            DictSet(root[Head(path)], CHILDREN,
                Assign(root[Head(path)][CHILDREN], Tail(path), d)))

(* -------------------- qbee_devices_ansible_by_tags --------------------- *)
\* the loop `for tag in tags` from its k-th element
RECURSIVE TagLoop(_, _, _, _)
TagLoop(device, tags, k, inventory) ==
    IF k > Len(tags) THEN [inv |-> inventory, err |-> NoError]
    ELSE LET tag_label == ReSub(tags[k])
             r == AddDeviceToGroup(device, tag_label, inventory)
         IN  IF r.err # NoError THEN [inv |-> r.ref, err |-> r.err]
             ELSE TagLoop(device, tags, k + 1, r.ref)

\* the body of `for device in json_output['items']`
ByTagsBody(device, inventory) ==
    IF TAGS \notin DOMAIN device THEN [inv |-> inventory, err |-> TAGS]
    ELSE IF Truthy(device[TAGS])
         THEN TagLoop(device, device[TAGS].val, 1, inventory)
         ELSE [inv |-> inventory, err |-> NoError]

(* ------------------- qbee_devices_ansible_by_groups -------------------- *)
\* the loop with "Create group if not exists" moved before "Last group"
RECURSIVE GroupLoop_CreateFirst(_, _, _, _, _)
GroupLoop_CreateFirst(device, group_names, k, inventory, ref) ==
    IF k > Len(group_names) THEN [inv |-> inventory, err |-> NoError]
    ELSE LET group == group_names[k]
             group_label == ReSub(group)
             dataref == Deref(inventory, ref)
             created ==
                 IF group_label \notin DOMAIN dataref
                 THEN DictSet(dataref, group_label, Dict1(CHILDREN, EmptyDict))
                 ELSE dataref
             inv2 == Assign(inventory, ref, created)
         IN  IF group = group_names[Len(group_names)]
             THEN LET r == AddDeviceToGroup(device, group_label, created)
                  IN  [inv |-> Assign(inventory, ref, r.ref), err |-> r.err]
             ELSE IF CHILDREN \notin DOMAIN created[group_label]
                  THEN [inv |-> inv2, err |-> CHILDREN]
                  ELSE GroupLoop_CreateFirst(device, group_names, k + 1, inv2,
                                             Append(ref, group_label))

\* the loop `for group in group_names` from its k-th element, dataref being
\* the children dict reached through the labels of ref
RECURSIVE GroupLoop(_, _, _, _, _)
GroupLoop(device, group_names, k, inventory, ref) ==
    IF k > Len(group_names) THEN [inv |-> inventory, err |-> NoError]
    ELSE LET group == group_names[k]
             group_label == ReSub(group)
             dataref == Deref(inventory, ref)
         IN  IF group = group_names[Len(group_names)]
             THEN LET r == AddDeviceToGroup(device, group_label, dataref)
                  IN  [inv |-> Assign(inventory, ref, r.ref), err |-> r.err]
             ELSE LET created ==
                        IF group_label \notin DOMAIN dataref
                        THEN DictSet(dataref, group_label, Dict1(CHILDREN, EmptyDict))
                        ELSE dataref
                      inv2 == Assign(inventory, ref, created)
                  IN  IF CHILDREN \notin DOMAIN created[group_label]
                      THEN [inv |-> inv2, err |-> CHILDREN]
                      ELSE GroupLoop(device, group_names, k + 1, inv2,
                                     Append(ref, group_label))

\* groups[:] in place of groups[:-1]
AllButLast_KeepsLast(groups) == groups

\* groups[:-1]
AllButLast(groups) == SubSeq(groups, 1, Len(groups) - 1)

\* the identifiers taking priority over the titles
ResolveGroups_IdsFirst(device) ==
    IF ANCESTORS \in DOMAIN device
    THEN device[ANCESTORS]
    ELSE device[ANCESTORS_TITLES]

\* the list bound to `groups`; the caller has checked that its key exists
ResolveGroups(device) ==
    IF ANCESTORS_TITLES \in DOMAIN device
    THEN device[ANCESTORS_TITLES]
    ELSE device[ANCESTORS]

\* the body of `for device in json_output['items']`
ByGroupsBody(device, inventory) ==
    IF ANCESTORS_TITLES \notin DOMAIN device /\ ANCESTORS \notin DOMAIN device
    THEN [inv |-> inventory, err |-> ANCESTORS]
    ELSE LET groups == ResolveGroups(device)
         IN  IF Len(groups) = 1
             THEN LET r == AddDeviceToGroup(device, ReSub(groups[1]), inventory)
                  IN  [inv |-> r.ref, err |-> r.err]
             ELSE GroupLoop(device, AllButLast(groups), 1, inventory, <<>>)

(* ----------------------------- the run --------------------------------- *)
Init ==
    /\ mode \in {"tags", "groups"}
    /\ pc = "loop"
    /\ items = <<>>
    /\ inv = EmptyDict
    /\ err = NoError
    /\ stdout = <<>>
    /\ before = EmptyDict

Step(device, r) ==
    /\ items' = Append(items, device)
    /\ inv' = r.inv
    /\ err' = r.err
    /\ pc' = IF r.err = NoError THEN "loop" ELSE "error"
    /\ before' = inv
    /\ UNCHANGED <<mode, stdout>>

ByTagsDevice ==
    /\ mode = "tags" /\ pc = "loop" /\ Len(items) < MaxItems
    /\ \E device \in TagDevices : Step(device, ByTagsBody(device, inv))

ByGroupsDevice ==
    /\ mode = "groups" /\ pc = "loop" /\ Len(items) < MaxItems
    /\ \E device \in GroupDevices : Step(device, ByGroupsBody(device, inv))

\* yaml.dump(ansible_inventory, sys.stdout) once the items are exhausted
Dump ==
    /\ pc = "loop"
    /\ stdout' = <<inv>>
    /\ pc' = "done"
    /\ UNCHANGED <<mode, items, inv, err, before>>

Next == ByTagsDevice \/ ByGroupsDevice \/ Dump

Spec == Init /\ [][Next]_vars

(* --------------- reading the inventory (for the claims) ---------------- *)
\* the paths (sequences of labels) of all group nodes of the tree under root
RECURSIVE AllPaths(_)
AllPaths(root) ==
    UNION { {<<l>>} \cup
            (IF CHILDREN \in DOMAIN root[l]
             THEN { <<l>> \o p : p \in AllPaths(root[l][CHILDREN]) }
             ELSE {}) : l \in DOMAIN root }

\* the group node root[p1]['children'][p2]...[pn], for a path of AllPaths(root)
GroupAt(root, path) ==
    Deref(root, SubSeq(path, 1, Len(path) - 1))[path[Len(path)]]

\* the node ids of the hosts of the group at path, if there is such a group
HostIds(root, path) ==
    IF path \in AllPaths(root) /\ HOSTS \in DOMAIN GroupAt(root, path)
    THEN DOMAIN GroupAt(root, path)[HOSTS]
    ELSE {}

HasChildrenKey(root, path) ==
    path \in AllPaths(root) /\ CHILDREN \in DOMAIN GroupAt(root, path)

\* the device taken by the last step
LastDevice == items[Len(items)]

\* the last step was the groups loop body on a device with a node_id and an
\* ancestry list
GroupsStepDone ==
    /\ mode = "groups" /\ items # <<>>
    /\ NODE_ID \in DOMAIN LastDevice
    /\ (ANCESTORS_TITLES \in DOMAIN LastDevice \/ ANCESTORS \in DOMAIN LastDevice)

LastGroups == ResolveGroups(LastDevice)
LastId == LastDevice[NODE_ID]

\* the groups the last step created
NewPaths == AllPaths(inv) \ AllPaths(before)

\* the groups whose hosts the last step put the device in
PlacedPaths ==
    { p \in AllPaths(inv) : LastId \in HostIds(inv, p) /\ LastId \notin HostIds(before, p) }

TypeOK ==
    /\ mode \in {"tags", "groups"}
    /\ pc \in {"loop", "done", "error"}
    /\ (pc = "error") = (err # NoError)
    /\ stdout \in {<<>>, <<inv>>}
    /\ (stdout # <<>>) = (pc = "done")

(* ------------------------------ C1 ------------------------------------- *)
\* C1 as stated, on the paths of three different elements (where the walk by
\* value and the walk by position agree): a device with the ancestry
\* [g1, g2, g3] is put in the hosts of
\* norm(g1).children.norm(g2).children.norm(g3), the group named by the last
\* element of the path.
C1_AsStated ==
    (/\ GroupsStepDone /\ Len(LastGroups) = 3 /\ pc # "error"
     /\ Cardinality({LastGroups[1], LastGroups[2], LastGroups[3]}) = 3) =>
        LastId \in HostIds(inv, <<ReSub(LastGroups[1]), ReSub(LastGroups[2]),
                                  ReSub(LastGroups[3])>>)

\* the group that receives a device with the ancestry [g1, g2, g3]
C1_Target(g) ==
    IF g[1] = g[2] THEN <<ReSub(g[1])>> ELSE <<ReSub(g[1]), ReSub(g[2])>>

\* C1 amended: the last element of a three-element ancestry names no group.
\* When the walk completes the device is in the hosts of
\* norm(g1).children.norm(g2) (of the top-level norm(g1) when g1 = g2); the
\* step puts the device nowhere else and creates no group other than norm(g1)
\* and norm(g1).children.norm(g2).
C1_DropsLastElement ==
    (GroupsStepDone /\ Len(LastGroups) = 3) =>
        /\ err = NoError => LastId \in HostIds(inv, C1_Target(LastGroups))
        /\ PlacedPaths \subseteq {C1_Target(LastGroups)}
        /\ NewPaths \subseteq {<<ReSub(LastGroups[1])>>,
                               <<ReSub(LastGroups[1]), ReSub(LastGroups[2])>>}

\* a device with three different ancestry elements has been inserted two
\* levels deep
C1_Witness ==
    /\ GroupsStepDone /\ Len(LastGroups) = 3 /\ err = NoError
    /\ Cardinality({LastGroups[1], LastGroups[2], LastGroups[3]}) = 3
    /\ PlacedPaths = {<<ReSub(LastGroups[1]), ReSub(LastGroups[2])>>}

(* ------------------------------ C2 ------------------------------------- *)
\* the labels of the chain, by position
ChainLabels(groups) == [k \in 1..(Len(groups) - 1) |-> ReSub(groups[k])]

\* C2: a device with an ancestry of two or more elements is put in the hosts
\* of the group at the last position of the chain (the path without its last
\* element), nested in the children of every preceding chain element, also
\* when a group name occurs at more than one position of the chain.
C2_WalkByPosition ==
    (GroupsStepDone /\ Len(LastGroups) >= 2 /\ pc # "error") =>
        LastId \in HostIds(inv, ChainLabels(LastGroups))

RecvPath(groups) ==
    LET chain == SubSeq(groups, 1, Len(groups) - 1)
        k0 == CHOOSE k \in 1..Len(chain) :
                /\ chain[k] = chain[Len(chain)]
                /\ \A j \in 1..(k - 1) : chain[j] # chain[Len(chain)]
    IN  [k \in 1..k0 |-> ReSub(chain[k])]

C4_SingleElementNoNesting ==
    /\ (GroupsStepDone /\ Len(LastGroups) = 1) =>
          LET g == <<ReSub(LastGroups[1])>> IN
          /\ err = NoError
          /\ LastId \in HostIds(inv, g)
          /\ PlacedPaths \subseteq {g}
          /\ NewPaths \subseteq {g}
          /\ HasChildrenKey(inv, g) => HasChildrenKey(before, g)
    /\ (/\ mode = "groups"
        /\ \A i \in 1..Len(items) :
              /\ NODE_ID \in DOMAIN items[i]
              /\ ANCESTORS \in DOMAIN items[i]
              /\ Len(ResolveGroups(items[i])) = 1) =>
          \A p \in AllPaths(inv) : ~HasChildrenKey(inv, p)

\* two devices with one-element ancestries are in top-level groups
C4_Witness ==
    /\ GroupsStepDone /\ Len(items) = 2 /\ err = NoError
    /\ \A i \in 1..2 : /\ NODE_ID \in DOMAIN items[i]
                       /\ ANCESTORS \in DOMAIN items[i]
                       /\ Len(ResolveGroups(items[i])) = 1
    /\ PlacedPaths = {<<ReSub(LastGroups[1])>>}
    /\ ~HasChildrenKey(inv, <<ReSub(LastGroups[1])>>)

(* ------------------------------ C5 ------------------------------------- *)
\* the labels of the titles "EU", "S -1", "D-0", "D-1", "D-2" and of the
\* identifiers "e1", "s-1", "d0", "d1", "d2"
TitleLabels ==
    { <<"E", "U">>, <<"S", "_", "1">>,
      <<"D", "_", "0">>, <<"D", "_", "1">>, <<"D", "_", "2">> }
IdLabels ==
    { <<"e", "1">>, <<"s", "_", "1">>, <<"d", "0">>, <<"d", "1">>, <<"d", "2">> }

\* the labels of the groups the last step created or put the device in,
\* with the labels of the groups above them
UsedLabels == UNION { { p[k] : k \in DOMAIN p } : p \in NewPaths \cup PlacedPaths }

\* C5 as stated: for a device with `ancestors_titles` = [t1, t2] and
\* `ancestors` = [a1, a2], the labels of t1 and of t2 are used and those of
\* a1 and a2 are not.
C5_AsStated ==
    (/\ GroupsStepDone /\ err = NoError
     /\ ANCESTORS_TITLES \in DOMAIN LastDevice /\ ANCESTORS \in DOMAIN LastDevice
     /\ Len(LastGroups) = 2) =>
        /\ {ReSub(LastGroups[1]), ReSub(LastGroups[2])} \subseteq UsedLabels
        /\ UsedLabels \cap IdLabels = {}

\* C5 amended: the titles take priority. For a device that has
\* `ancestors_titles` (here always together with `ancestors`) every group
\* label created or used comes from the titles and none from the
\* identifiers; the identifiers are used only for a device without
\* `ancestors_titles`. A device with a non-empty ancestry ends in a group
\* labelled from the list that was chosen. Of a two-element list [t1, t2]
\* only the label of t1 is used: the last element names no group.
C5_TitlesTakePriority ==
    GroupsStepDone =>
        LET labels == IF ANCESTORS_TITLES \in DOMAIN LastDevice
                      THEN TitleLabels ELSE IdLabels
        IN  /\ UsedLabels \subseteq labels
            /\ (err = NoError /\ LastGroups # <<>>) =>
                  \E p \in AllPaths(inv) :
                      /\ LastId \in HostIds(inv, p)
                      /\ \A k \in DOMAIN p : p[k] \in labels
            /\ (err = NoError /\ Len(LastGroups) = 2) =>
                  /\ LastId \in HostIds(inv, <<ReSub(LastGroups[1])>>)
                  /\ UsedLabels \subseteq {ReSub(LastGroups[1])}

\* a device with both lists, of two elements, was put in the top-level group
\* labelled by its first title
C5_Witness ==
    /\ GroupsStepDone /\ err = NoError
    /\ ANCESTORS_TITLES \in DOMAIN LastDevice /\ ANCESTORS \in DOMAIN LastDevice
    /\ Len(LastGroups) = 2
    /\ PlacedPaths = {<<ReSub(LastGroups[1])>>}
    /\ UsedLabels = {ReSub(LastGroups[1])}
    /\ UsedLabels \subseteq TitleLabels

(* ------------------------------ C6 ------------------------------------- *)
\* C6: the tags loop does not fail on a device without tags. After a device
\* (with a node_id) whose `tags` is an empty list, null or absent, the run has
\* not stopped and the inventory is as it was: the device is in no group.
C6_NoTagsIsNoError ==
    (/\ mode = "tags" /\ items # <<>>
     /\ NODE_ID \in DOMAIN LastDevice
     /\ (TAGS \notin DOMAIN LastDevice \/ ~Truthy(LastDevice[TAGS]))) =>
        /\ pc # "error"
        /\ inv = before

(* ------------------------------ C7 ------------------------------------- *)
\* the ancestry of item i is an empty list (its handling is left undefined)
EmptyAncestry(i) ==
    /\ mode = "groups"
    /\ (ANCESTORS_TITLES \in DOMAIN items[i] \/ ANCESTORS \in DOMAIN items[i])
    /\ ResolveGroups(items[i]) = <<>>

\* C7: in either mode, when a device record of the input lacks `node_id`, no
\* YAML output is written.
C7_MissingNodeIdNoOutput ==
    (/\ \E i \in 1..Len(items) : NODE_ID \notin DOMAIN items[i]
     /\ \A i \in 1..Len(items) : ~EmptyAncestry(i)) =>
        stdout = <<>>

(* ------------------------------ C8 ------------------------------------- *)
\* the labels of the tags "a-b", "a b", "hosts"
TagLabel(tag) ==
    IF tag \in { <<"a", "-", "b">>, <<"a", " ", "b">> }
    THEN <<"a", "_", "b">> ELSE tag

\* the items that were inserted under the label: those with a node_id and a
\* tag of that label
InsertedUnder(label) ==
    { i \in 1..Len(items) :
        /\ NODE_ID \in DOMAIN items[i]
        /\ TAGS \in DOMAIN items[i]
        /\ Truthy(items[i][TAGS])
        /\ \E k \in DOMAIN items[i][TAGS].val : TagLabel(items[i][TAGS].val[k]) = label }

\* C8: the tags loop groups by normalized label and never duplicates. Every
\* tag of an inserted device has one group, under its normalized label; the
\* hosts of a group are exactly the distinct node ids inserted under its
\* label, as many entries as ids, each with the proxy command of its own id.
C8_OneGroupPerLabelOneEntryPerId ==
    mode = "tags" =>
        /\ \A label \in DOMAIN inv :
              LET ids == { items[i][NODE_ID] : i \in InsertedUnder(label) } IN
              /\ \A k \in DOMAIN label : label[k] \notin {" ", "-"}
              /\ DOMAIN inv[label] = {HOSTS}
              /\ DOMAIN inv[label][HOSTS] = ids
              /\ Cardinality(DOMAIN inv[label][HOSTS]) = Cardinality(ids)
              /\ \A id \in ids :
                    inv[label][HOSTS][id][ARGS] =
                        << "-o StrictHostKeyChecking=no -o ProxyCommand=\"qbee-cli connect -d " >>
                        \o id \o << " -t stdio:localhost:22\"" >>
        /\ \A label \in {TagLabel(t) : t \in TagNames} :
              InsertedUnder(label) # {} => label \in DOMAIN inv

\* a device tagged "a-b" and "a b" and another device share the group a_b,
\* which has two entries
C8_Witness ==
    /\ mode = "tags" /\ Len(items) = 2 /\ err = NoError
    /\ InsertedUnder(<<"a", "_", "b">>) = {1, 2}
    /\ \E i \in 1..2 : items[i][TAGS].val = << <<"a", "-", "b">>, <<"a", " ", "b">> >>
    /\ Cardinality(DOMAIN inv[<<"a", "_", "b">>][HOSTS]) = 2

(* ------------------------------ C9 ------------------------------------- *)
\* C9 as stated: for any tag or group names, the root mapping of the
\* inventory has no `hosts` key.
C9_AsStated == err = NoError => HOSTS \notin DOMAIN inv

\* some item has a tag or a top-level group that is named `hosts`
NamedHosts ==
    \E i \in 1..Len(items) :
        \/ /\ mode = "tags" /\ TAGS \in DOMAIN items[i] /\ Truthy(items[i][TAGS])
           /\ \E k \in DOMAIN items[i][TAGS].val : items[i][TAGS].val[k] = HOSTS
        \/ /\ mode = "groups"
           /\ (ANCESTORS_TITLES \in DOMAIN items[i] \/ ANCESTORS \in DOMAIN items[i])
           /\ ResolveGroups(items[i]) # <<>>
           /\ ResolveGroups(items[i])[1] = HOSTS

\* node is a group node: a mapping with `hosts` and `children` as its only
\* keys, its hosts mapping node ids to host variables
IsGroupNode(node) ==
    /\ DOMAIN node \subseteq {HOSTS, CHILDREN}
    /\ HOSTS \in DOMAIN node =>
          /\ DOMAIN node[HOSTS] \subseteq NodeIds
          /\ \A id \in DOMAIN node[HOSTS] : DOMAIN node[HOSTS][id] = {ARGS}

\* C9 amended: the root has a `hosts` key only when a tag or a top-level
\* group of the input is itself named `hosts`; every key of the root, that
\* one included, maps to a group node, and so does every key of a `children`
\* mapping: the node ids lie only in the `hosts` of named group nodes.
C9_RootHoldsOnlyGroups ==
    /\ HOSTS \in DOMAIN inv => NamedHosts
    /\ \A p \in AllPaths(inv) : IsGroupNode(GroupAt(inv, p))

\* a device tagged "hosts" is in the hosts of the top-level group `hosts`,
\* next to another group
C9_Witness ==
    /\ mode = "tags" /\ err = NoError
    /\ HOSTS \in DOMAIN inv
    /\ Cardinality(DOMAIN inv) = 2
    /\ HostIds(inv, <<HOSTS>>) # {}

(* ------------------------------ C10 ------------------------------------ *)
\* C10: the groups loop raises no lookup error on an input in which every
\* device has a node_id (here: its own) and a non-empty ancestry list,
\* whatever the order of the devices, and every device is in the hosts of a
\* group.
C10_NoLookupError ==
    (/\ mode = "groups"
     /\ \A i, j \in 1..Len(items) :
           (NODE_ID \in DOMAIN items[i] /\ NODE_ID \in DOMAIN items[j] /\ i # j)
              => items[i][NODE_ID] # items[j][NODE_ID]
     /\ \A i \in 1..Len(items) :
           /\ NODE_ID \in DOMAIN items[i]
           /\ (ANCESTORS_TITLES \in DOMAIN items[i] \/ ANCESTORS \in DOMAIN items[i])
           /\ ResolveGroups(items[i]) # <<>>) =>
        /\ err = NoError
        /\ \A i \in 1..Len(items) :
              \E p \in AllPaths(inv) : items[i][NODE_ID] \in HostIds(inv, p)
====
